---- MODULE Spec2Model ----
(***************************************************************************)
(* Elementary cellular automata: the grid engine (class Automata), the     *)
(* pattern analyzer (analyzeRule) and the page's controls (main.ts).       *)
(*                                                                         *)
(* A grid is a flat function 0..width*height-1 -> {0,1}, indexed           *)
(* row*width+col as the Uint8Array of the source is.                       *)
(***************************************************************************)
EXTENDS Integers, Sequences, FiniteSets, TLC

VARIABLES
    automata,   \* engine id -> [width, height, rule, grid]: the Automata objects
    upToDate,   \* history: engine id -> TRUE iff run() filled the grid under the rule now stored
    runs,       \* history: engine id -> run() calls since the stored rule last changed, counted to 2
    result,     \* the AnalysisResult last returned by analyzeRule, NoResult before
    analysed,   \* history: the rule id and the grid passed to that analyzeRule call
    dom,        \* the page's elements: [ruleInput, autoModeCheck, delayInput, delayValue, statusText]
    autoInterval, \* main.ts's autoInterval: a timer handle, Undefined when none is stored
    intervals   \* the browser's interval timers: [live: set of [id, delay], nextId]

engineVars == <<automata, upToDate, runs>>
pageVars == <<dom, autoInterval, intervals>>
vars == <<automata, upToDate, runs, result, analysed, dom, autoInterval, intervals>>

\* ------------------------------------------------------------------ bounds

\* Largest grid width and height Init draws for the engine specifications.
MaxW == 3
MaxH == 3

Engines == {1, 2}
NoRun == -1
NotAnalysed == [rule |-> NoRun, grid |-> <<>>]
NoResult == [wolframClass |-> "", description |-> "", symmetries |-> <<>>]

RuleIds == 0..255

\* ------------------------------------------------------------ grid engine

Min(a, b) == IF a < b THEN a ELSE b

\* (rule >> pattern) & 1, for a rule >= 0
ShiftBit(r, pattern) == (r \div (2 ^ pattern)) % 2

\* (left << 2) | (center << 1) | right, the three operands being single bits
Pattern(left, center, right) == 4 * left + 2 * center + right

\* Variant of runCell whose neighbour columns stop at the edges instead of wrapping.
runCell_clamped(g, i, w, r) ==
    LET y == i \div w
        x == i % w
        left == g[(y - 1) * w + (IF x = 0 THEN 0 ELSE x - 1)]
        center == g[(y - 1) * w + x]
        right == g[(y - 1) * w + Min(x + 1, w - 1)]
        state == ShiftBit(r, Pattern(left, center, right))
    IN  [g EXCEPT ![i] = state]

\* Variant of runCell that reads the left neighbour from the row being written.
runCell_inPlace(g, i, w, r) ==
    LET y == i \div w
        x == i % w
        left == g[y * w + ((x - 1 + w) % w)]
        center == g[(y - 1) * w + x]
        right == g[(y - 1) * w + ((x + 1) % w)]
        state == ShiftBit(r, Pattern(left, center, right))
    IN  [g EXCEPT ![i] = state]

\* The body of run()'s inner loop for the cell at flat index i = y*width + x:
\* reads row y-1 of g with wrapped columns and returns g with cell i written.
runCell(g, i, w, r) ==
    LET y == i \div w
        x == i % w
        left == g[(y - 1) * w + ((x - 1 + w) % w)]
        center == g[(y - 1) * w + x]
        right == g[(y - 1) * w + ((x + 1) % w)]
        state == ShiftBit(r, Pattern(left, center, right))
    IN  [g EXCEPT ![i] = state]

\* run()'s two nested loops from flat index i on: y from 1, x from 0, in place.
RECURSIVE runLoop(_, _, _, _, _)
runLoop(g, i, w, h, r) ==
    IF i >= w * h THEN g ELSE runLoop(runCell(g, i, w, r), i + 1, w, h, r)

\* Variant of run() whose row loop starts at y = 0, row -1 being the last row.
RECURSIVE runLoop_rowZero(_, _, _, _, _)
runLoop_rowZero(g, i, w, h, r) ==
    IF i >= w * h THEN g
    ELSE LET y == i \div w
             x == i % w
             up == (y - 1 + h) % h
             state == ShiftBit(r, Pattern(g[up * w + ((x - 1 + w) % w)],
                                          g[up * w + x],
                                          g[up * w + ((x + 1) % w)]))
         IN  runLoop_rowZero([g EXCEPT ![i] = state], i + 1, w, h, r)

run_rowZero(a) ==
    [a EXCEPT !.grid = runLoop_rowZero(a.grid, 0, a.width, a.height, a.rule)]

run(a) == [a EXCEPT !.grid = runLoop(a.grid, a.width, a.width, a.height, a.rule)]

\* Variant of reset() that seeds the first column.
reset_firstColumn(a) ==
    [a EXCEPT !.grid = [i \in DOMAIN a.grid |-> IF i = 0 THEN 1 ELSE 0]]

reset(a) ==
    LET centerX == a.width \div 2
    IN  [a EXCEPT !.grid = [i \in DOMAIN a.grid |-> IF i = centerX THEN 1 ELSE 0]]

\* Variant of setRule() that recomputes the grid at once.
setRule_applied(a, r) == run([a EXCEPT !.rule = r])

setRule(a, r) == [a EXCEPT !.rule = r]

\* new Automata(width, height)
Constructor(w, h) ==
    reset([width |-> w, height |-> h, rule |-> 0,
           grid |-> [i \in 0..(w * h - 1) |-> 0]])

\* ------------------------------------------------------- pattern analyzer

CLASS_4_RULES == {110, 124, 137, 147, 193, 54}

\* The number of rows above the last one that isClass2 compares with it.
PeriodWindow == 50

isClass1(grid, width, height) ==
    LET lastRowIdx == (height - 1) * width
        val == grid[lastRowIdx]
    IN  \A x \in 1..(width - 1) : grid[lastRowIdx + x] = val

isClass2(grid, width, height) ==
    LET limit == Min(PeriodWindow, height - 1)
        lastRowStart == (height - 1) * width
    IN  \E k \in 1..limit :
            LET checkRowStart == (height - 1 - k) * width
            IN  \A x \in 0..(width - 1) :
                    grid[lastRowStart + x] = grid[checkRowStart + x]

\* for (x = 0; x < width / 2; x++): the division is not an integer one
checkVerticalSymmetry(grid, width, height) ==
    \A y \in 0..(height - 1) :
        LET rowStart == y * width
        IN  \A x \in {c \in 0..(width - 1) : 2 * c < width} :
                grid[rowStart + x] = grid[rowStart + width - 1 - x]

checkHorizontalSymmetry(grid, width, height) ==
    \A y \in {r \in 0..(height - 1) : 2 * r < height} :
        LET rowTop == y * width
            rowBot == (height - 1 - y) * width
        IN  \A x \in 0..(width - 1) : grid[rowTop + x] = grid[rowBot + x]

checkDiagonalSymmetry(grid, size) ==
    \A y \in 0..(size - 1) : \A x \in 0..(y - 1) :
        grid[y * size + x] = grid[x * size + y]

\* Variant that compares each cell with its image under a half turn.
checkAntiDiagonalSymmetry_halfTurn(grid, size) ==
    \A y \in 0..(size - 1) : \A x \in 0..(size - 1 - y - 1) :
        grid[y * size + x] = grid[(size - 1 - y) * size + (size - 1 - x)]

checkAntiDiagonalSymmetry(grid, size) ==
    \A y \in 0..(size - 1) : \A x \in 0..(size - 1 - y - 1) :
        grid[y * size + x] = grid[(size - 1 - x) * size + (size - 1 - y)]

\* Variant of isClass2 that compares the last row with every row above it.
wolframClassOf_noWindow(rule, a) ==
    IF rule \in CLASS_4_RULES THEN "Class 4 (Complex)"
    ELSE IF isClass1(a.grid, a.width, a.height) THEN "Class 1 (Uniform)"
    ELSE IF \E k \in 1..(a.height - 1) : \A x \in 0..(a.width - 1) :
                a.grid[(a.height - 1) * a.width + x]
                    = a.grid[(a.height - 1 - k) * a.width + x]
         THEN "Class 2 (Periodic/Stable)"
    ELSE "Class 3 (Chaotic/Aperiodic)"

\* Part 1 of analyzeRule: the class label.
wolframClassOf(rule, a) ==
    IF rule \in CLASS_4_RULES THEN "Class 4 (Complex)"
    ELSE IF isClass1(a.grid, a.width, a.height) THEN "Class 1 (Uniform)"
    ELSE IF isClass2(a.grid, a.width, a.height) THEN "Class 2 (Periodic/Stable)"
    ELSE "Class 3 (Chaotic/Aperiodic)"

descriptionOf(wolframClass) ==
    CASE wolframClass = "Class 4 (Complex)" ->
            "Complex, localized structures, potential for universal computation."
      [] wolframClass = "Class 1 (Uniform)" -> "Evolves to a homogenous state."
      [] wolframClass = "Class 2 (Periodic/Stable)" ->
            "Evolves to simple separated periodic structures."
      [] OTHER -> "Chaotic, random-like patterns."

Push(seq, cond, label) == IF cond THEN Append(seq, label) ELSE seq

\* Variant without the "None" sentinel.
symmetriesOf_noSentinel(a) ==
    LET s1 == Push(<<>>, checkVerticalSymmetry(a.grid, a.width, a.height),
                   "Vertical (Left-Right)")
        s2 == Push(s1, checkHorizontalSymmetry(a.grid, a.width, a.height),
                   "Horizontal (Top-Bottom)")
        s3 == IF a.width = a.height
              THEN Push(s2, checkDiagonalSymmetry(a.grid, a.width), "Diagonal (TL-BR)")
              ELSE s2
    IN  IF a.width = a.height
        THEN Push(s3, checkAntiDiagonalSymmetry(a.grid, a.width), "Anti-Diagonal (TR-BL)")
        ELSE s3

\* Variant that runs the diagonal checks on the top square of a tall grid.
symmetriesOf_subSquare(a) ==
    LET s1 == Push(<<>>, checkVerticalSymmetry(a.grid, a.width, a.height),
                   "Vertical (Left-Right)")
        s2 == Push(s1, checkHorizontalSymmetry(a.grid, a.width, a.height),
                   "Horizontal (Top-Bottom)")
        s3 == IF a.width <= a.height
              THEN Push(s2, checkDiagonalSymmetry(a.grid, a.width), "Diagonal (TL-BR)")
              ELSE s2
        s4 == IF a.width <= a.height
              THEN Push(s3, checkAntiDiagonalSymmetry(a.grid, a.width), "Anti-Diagonal (TR-BL)")
              ELSE s3
    IN  IF Len(s4) = 0 THEN Append(s4, "None") ELSE s4

\* Part 2 of analyzeRule: the symmetry labels, pushed in the order of the checks.
symmetriesOf(a) ==
    LET s1 == Push(<<>>, checkVerticalSymmetry(a.grid, a.width, a.height),
                   "Vertical (Left-Right)")
        s2 == Push(s1, checkHorizontalSymmetry(a.grid, a.width, a.height),
                   "Horizontal (Top-Bottom)")
        s3 == IF a.width = a.height
              THEN Push(s2, checkDiagonalSymmetry(a.grid, a.width), "Diagonal (TL-BR)")
              ELSE s2
        s4 == IF a.width = a.height
              THEN Push(s3, checkAntiDiagonalSymmetry(a.grid, a.width), "Anti-Diagonal (TR-BL)")
              ELSE s3
    IN  IF Len(s4) = 0 THEN Append(s4, "None") ELSE s4

analyzeRule(rule, a) ==
    LET wolframClass == wolframClassOf(rule, a)
    IN  [wolframClass |-> wolframClass,
         description |-> descriptionOf(wolframClass),
         symmetries |-> symmetriesOf(a)]

\* ----------------------------------------------------------------- the page

\* The value of autoInterval when no handle is stored; it is falsy, as no
\* handle setInterval returns is (handles are positive integers).
Undefined == 0

Digits == <<"0", "1", "2", "3", "4", "5", "6", "7", "8", "9">>

IsDigit(c) == \E d \in 1..10 : Digits[d] = c

DigitValue(c) == (CHOOSE d \in 1..10 : Digits[d] = c) - 1

\* Number.prototype.toString of an integer, as a sequence of characters.
RECURSIVE ToStr(_)
ToStr(n) ==
    IF n < 0 THEN <<"-">> \o ToStr(-n)
    ELSE IF n < 10 THEN <<Digits[n + 1]>>
    ELSE Append(ToStr(n \div 10), Digits[(n % 10) + 1])

\* The value of the longest run of decimal digits that starts text, after acc.
RECURSIVE DigitPrefix(_, _, _)
DigitPrefix(text, i, acc) ==
    IF i > Len(text) \/ ~IsDigit(text[i]) THEN acc
    ELSE DigitPrefix(text, i + 1, 10 * acc + DigitValue(text[i]))

HexLower == <<"0", "1", "2", "3", "4", "5", "6", "7", "8", "9",
              "a", "b", "c", "d", "e", "f">>
HexUpper == <<"0", "1", "2", "3", "4", "5", "6", "7", "8", "9",
              "A", "B", "C", "D", "E", "F">>

IsHexDigit(c) == \E d \in 1..16 : HexLower[d] = c \/ HexUpper[d] = c

HexValue(c) == (CHOOSE d \in 1..16 : HexLower[d] = c \/ HexUpper[d] = c) - 1

\* The value of the longest run of hexadecimal digits of text from i on, after acc.
RECURSIVE HexPrefix(_, _, _)
HexPrefix(text, i, acc) ==
    IF i > Len(text) \/ ~IsHexDigit(text[i]) THEN acc
    ELSE HexPrefix(text, i + 1, 16 * acc + HexValue(text[i]))

\* parseInt(text) without a radix: leading blanks and one sign are skipped; a
\* 0x or 0X prefix selects base 16, otherwise base 10; the digits up to the
\* first other character are read, and the result is NaN when there is none.
ParseInt(text) ==
    LET blanks == {i \in 1..Len(text) : \A j \in 1..i : text[j] = " "}
        start == Cardinality(blanks) + 1
        signed == start <= Len(text) /\ text[start] \in {"+", "-"}
        first == IF signed THEN start + 1 ELSE start
        hex == /\ first + 1 <= Len(text)
               /\ text[first] = "0"
               /\ text[first + 1] \in {"x", "X"}
        from == IF hex THEN first + 2 ELSE first
        none == \/ from > Len(text)
                \/ IF hex THEN ~IsHexDigit(text[from]) ELSE ~IsDigit(text[from])
        magnitude == IF hex THEN HexPrefix(text, from, 0) ELSE DigitPrefix(text, from, 0)
    IN  IF none
        THEN [nan |-> TRUE, val |-> 0]
        ELSE [nan |-> FALSE,
              val |-> IF signed /\ text[start] = "-" THEN -magnitude ELSE magnitude]

\* Variant of clampRule without the upper limit.
clampRule_noUpper(parsed) ==
    LET r0 == IF parsed.nan THEN 0 ELSE parsed.val
    IN  IF r0 < 0 THEN 0 ELSE r0

\* The Run button's three corrections of the parsed number r: NaN to 0,
\* below 0 to 0, above 255 to 255.
clampRule(parsed) ==
    LET r0 == IF parsed.nan THEN 0 ELSE parsed.val
        r1 == IF r0 < 0 THEN 0 ELSE r0
    IN  IF r1 > 255 THEN 255 ELSE r1

\* setInterval(callback, delay) on the browser's timer table tb: a new live
\* timer under the next handle.
setInterval(tb, delay) ==
    [live |-> tb.live \cup {[id |-> tb.nextId, delay |-> delay]},
     nextId |-> tb.nextId + 1]

clearInterval(tb, id) == [tb EXCEPT !.live = {t \in @ : t.id # id}]

\* s is [autoInterval, intervals].
stopAutoMode(s) ==
    IF s.autoInterval # Undefined
    THEN [autoInterval |-> Undefined,
          intervals |-> clearInterval(s.intervals, s.autoInterval)]
    ELSE s

\* Variant of startAutoMode that does not stop the stored timer first.
startAutoMode_noStop(s, delayText) ==
    LET delay == ParseInt(delayText).val * 1000
    IN  [autoInterval |-> s.intervals.nextId,
         intervals |-> setInterval(s.intervals, delay)]

startAutoMode(s, delayText) ==
    LET stopped == stopAutoMode(s)
        delay == ParseInt(delayText).val * 1000
    IN  [autoInterval |-> stopped.intervals.nextId,
         intervals |-> setInterval(stopped.intervals, delay)]

\* ---------------------------------------------------------------- actions

\* analyzeRule(r, automata) on engine 1; the engine is only read.
Analyze(r) ==
    /\ result' = analyzeRule(r, automata[1])
    /\ analysed' = [rule |-> r, grid |-> automata[1].grid]
    /\ UNCHANGED <<engineVars, pageVars>>

SetRule(e, r) ==
    /\ automata' = [automata EXCEPT ![e] = setRule(@, r)]
    /\ upToDate' = [upToDate EXCEPT ![e] = @ /\ r = automata[e].rule]
    /\ runs' = [runs EXCEPT ![e] = IF r = automata[e].rule THEN @ ELSE 0]
    /\ UNCHANGED <<result, analysed, pageVars>>

Reset(e) ==
    /\ automata' = [automata EXCEPT ![e] = reset(@)]
    /\ upToDate' = [upToDate EXCEPT ![e] = FALSE]
    /\ UNCHANGED <<runs, result, analysed, pageVars>>

Run(e) ==
    /\ automata' = [automata EXCEPT ![e] = run(@)]
    /\ upToDate' = [upToDate EXCEPT ![e] = TRUE]
    /\ runs' = [runs EXCEPT ![e] = Min(@ + 1, 2)]
    /\ UNCHANGED <<result, analysed, pageVars>>

\* The page as its markup declares it, before any script has run.
PageLoaded ==
    /\ dom = [ruleInput |-> <<"3", "0">>, autoModeCheck |-> FALSE,
              delayInput |-> <<"5">>, delayValue |-> <<"5">>,
              statusText |-> [text |-> "Ready", rule |-> NoRun]]
    /\ autoInterval = Undefined
    /\ intervals = [live |-> {}, nextId |-> 1]

\* Both engines are built with the same dimensions.
Init ==
    /\ \E w \in 1..MaxW, h \in 1..MaxH :
          automata = [e \in Engines |-> Constructor(w, h)]
    /\ upToDate = [e \in Engines |-> FALSE]
    /\ runs = [e \in Engines |-> 0]
    /\ result = NoResult
    /\ analysed = NotAnalysed
    /\ PageLoaded

\* One engine, every rule id.
Next ==
    \/ \E r \in RuleIds : SetRule(1, r)
    \/ Reset(1)
    \/ Run(1)

Spec == Init /\ [][Next]_vars

\* Two engines of the same dimensions, each driven on its own; the rule ids
\* are drawn from a sample so that the pairs of engine states stay few.
TwinRules == {0, 30, 54, 90, 110, 150, 184, 255}

NextTwin ==
    \E e \in Engines :
        \/ \E r \in TwinRules : SetRule(e, r)
        \/ Reset(e)
        \/ Run(e)

SpecTwin == Init /\ [][NextTwin]_vars

\* ------------------------------------------------------- the page's events

\* The page builds a 256 x 256 grid (WIDTH, HEIGHT); the model builds one of
\* UiSize x UiSize.
UiSize == 3
\* No timer is created once the browser has handed out this many handles.
MaxTimerId == 3

Timing == [autoInterval |-> autoInterval, intervals |-> intervals]

SetTiming(s) ==
    /\ autoInterval' = s.autoInterval
    /\ intervals' = s.intervals

\* main.ts's run() after automata.setRule(r): reset, run, status text, analysis.
Render(r, d) ==
    /\ automata' = [automata EXCEPT ![1] = run(reset(setRule(@, r)))]
    /\ upToDate' = [upToDate EXCEPT ![1] = TRUE]
    /\ runs' = [runs EXCEPT ![1] = IF r = automata[1].rule THEN Min(@ + 1, 2) ELSE 1]
    /\ result' = analyzeRule(automata'[1].rule, automata'[1])
    /\ analysed' = [rule |-> automata'[1].rule, grid |-> automata'[1].grid]
    /\ dom' = [d EXCEPT !.statusText = [text |-> "rendered", rule |-> automata'[1].rule]]

\* The module's top-level statements: the engine, rule 30, the first run().
InitUI ==
    LET a == run(reset(setRule(Constructor(UiSize, UiSize), 30)))
    IN  /\ automata = [e \in Engines |-> IF e = 1 THEN a ELSE Constructor(UiSize, UiSize)]
        /\ upToDate = [e \in Engines |-> e = 1]
        /\ runs = [e \in Engines |-> IF e = 1 THEN 1 ELSE 0]
        /\ result = analyzeRule(a.rule, a)
        /\ analysed = [rule |-> a.rule, grid |-> a.grid]
        /\ dom = [ruleInput |-> <<"3", "0">>, autoModeCheck |-> FALSE,
                  delayInput |-> <<"5">>, delayValue |-> <<"5">>,
                  statusText |-> [text |-> "rendered", rule |-> a.rule]]
        /\ autoInterval = Undefined
        /\ intervals = [live |-> {}, nextId |-> 1]

\* The user toggles the auto-mode checkbox; its change handler runs.
AutoModeChange ==
    /\ dom' = [dom EXCEPT !.autoModeCheck = ~@]
    /\ IF dom'.autoModeCheck
       THEN /\ intervals.nextId <= MaxTimerId
            /\ SetTiming(startAutoMode(Timing, dom.delayInput))
       ELSE SetTiming(stopAutoMode(Timing))
    /\ UNCHANGED <<engineVars, result, analysed>>

\* The user moves the delay slider to d seconds; its input handler runs.
DelayInput(d) ==
    /\ ToStr(d) # dom.delayInput
    /\ dom' = [dom EXCEPT !.delayInput = ToStr(d), !.delayValue = ToStr(d)]
    /\ IF dom.autoModeCheck
       THEN /\ intervals.nextId <= MaxTimerId
            /\ SetTiming(startAutoMode(Timing, dom'.delayInput))
       ELSE UNCHANGED <<autoInterval, intervals>>
    /\ UNCHANGED <<engineVars, result, analysed>>

\* A live interval timer fires its callback.
Tick ==
    /\ \E t \in intervals.live :
          LET next == automata[1].rule + 1
              r == IF next > 255 THEN 0 ELSE next
          IN  Render(r, [dom EXCEPT !.ruleInput = ToStr(r)])
    /\ UNCHANGED <<autoInterval, intervals>>

\* The Run button.
RunClick ==
    /\ LET r == clampRule(ParseInt(dom.ruleInput))
       IN  Render(r, [dom EXCEPT !.ruleInput = ToStr(r)])
    /\ UNCHANGED <<autoInterval, intervals>>

\* The Reset button.
ResetClick ==
    /\ automata' = [automata EXCEPT ![1] = reset(@)]
    /\ upToDate' = [upToDate EXCEPT ![1] = FALSE]
    /\ dom' = [dom EXCEPT !.statusText = [text |-> "Grid reset. Ready.", rule |-> NoRun]]
    /\ UNCHANGED <<runs, result, analysed, autoInterval, intervals>>

NextUI ==
    \/ AutoModeChange
    \/ \E d \in 1..5 : DelayInput(d)
    \/ Tick
    \/ RunClick
    \/ ResetClick

SpecUI == InitUI /\ [][NextUI]_vars

\* ------------------------------------------- the events that set the rule

\* What the user may leave in the rule input: nothing, letters, a sign, a
\* fraction, an exponent, a hexadecimal prefix, leading blanks, and numbers
\* below, inside, at the ends of and above 0..255.
RuleTexts ==
    { <<>>, <<"a", "b", "c">>, <<"-">>, <<"-", "5">>, <<"-", "0">>,
      <<"0">>, <<"7", "x">>, <<" ", "4", "2">>, <<"+", "9">>, <<"3", ".", "7">>,
      <<"1", "e", "3">>, <<"0", "x", "1", "F">>, <<"0", "x", "1", "0", "0">>,
      <<"0", "x">>, <<"2", "5", "5">>, <<"2", "5", "6">>, <<"3", "0", "0">>,
      <<"9", "9", "9", "9", "9", "9", "9", "9", "9">> }

\* The user edits the rule input; no handler runs.
TypeRule(t) ==
    /\ t # dom.ruleInput
    /\ dom' = [dom EXCEPT !.ruleInput = t]
    /\ UNCHANGED <<engineVars, result, analysed, autoInterval, intervals>>

\* Math.random() returns a number from 0 up to but not including 1: here a
\* fraction n / RandomScale with 0 <= n < RandomScale.
RandomScale == 2^16

\* The numerators drawn: the least and the greatest, the two each side of
\* the step from rule 0 to rule 1, and the two each side of one half.
RandomDraws ==
    { 0, (RandomScale \div 256) - 1, RandomScale \div 256,
      (RandomScale \div 2) - 1, RandomScale \div 2, RandomScale - 1 }

\* The Random Rule button: Math.floor(Math.random() * 256).
RandomClick ==
    /\ \E n \in RandomDraws :
          LET r == (n * 256) \div RandomScale
          IN  Render(r, [dom EXCEPT !.ruleInput = ToStr(r)])
    /\ UNCHANGED <<autoInterval, intervals>>

\* Every handler of the page that calls automata.setRule, the edits of the
\* rule input and the checkbox that starts and stops the ticks.
NextRule ==
    \/ \E t \in RuleTexts : TypeRule(t)
    \/ RunClick
    \/ RandomClick
    \/ AutoModeChange
    \/ Tick

SpecRule == InitUI /\ [][NextRule]_vars

SampleRules == CLASS_4_RULES \cup {0, 30, 55, 109, 111, 255}

\* The engine driven as in Spec, on sampled rule ids, and handed to the
\* analyzer with its own rule at any moment.
NextE2E ==
    \/ \E r \in SampleRules : SetRule(1, r)
    \/ Reset(1)
    \/ Run(1)
    \/ Analyze(automata[1].rule)

SpecE2E == Init /\ [][NextE2E]_vars

\* The analyzer as a function of (rule id, grid view): Init draws the rule id
\* and every 0/1 grid of at most MaxCells cells, and grids taller than the
\* period window whose last row <<0,..,0,1>> recurs in at most one other row.
MaxCells == 9
AllRulesCells == 6
TallW == 2

Shapes == {wh \in (1..MaxCells) \X (1..MaxCells) : wh[1] * wh[2] <= MaxCells}

TallGrids(w, h) ==
    {[i \in 0..(w * h - 1) |->
        IF i % w = w - 1 /\ (i \div w = h - 1 \/ i \div w = j) THEN 1 ELSE 0]
     : j \in 0..(h - 1)}

View(w, h, r, g) == [width |-> w, height |-> h, rule |-> r, grid |-> g]

\* Every rule id on the small grids, the sample on the others.
RulesFor(w, h) == IF w * h <= AllRulesCells THEN RuleIds ELSE SampleRules

InitAnalysis ==
    /\ \/ \E wh \in Shapes : \E g \in [0..(wh[1] * wh[2] - 1) -> {0, 1}] :
             \E r \in RulesFor(wh[1], wh[2]) :
                automata = [e \in Engines |-> View(wh[1], wh[2], r, g)]
       \/ \E h \in (PeriodWindow + 1)..(PeriodWindow + 3) : \E g \in TallGrids(TallW, h) :
             \E r \in SampleRules :
                automata = [e \in Engines |-> View(TallW, h, r, g)]
    /\ upToDate = [e \in Engines |-> FALSE]
    /\ runs = [e \in Engines |-> 0]
    /\ result = NoResult
    /\ analysed = NotAnalysed
    /\ PageLoaded

\* analyzeRule(automata.rule, automata), as the page calls it.
NextAnalysis == Analyze(automata[1].rule)

SpecAnalysis == InitAnalysis /\ [][NextAnalysis]_vars

\* ------------------------------------------------- properties of the engine

Cell(a, y, x) == a.grid[y * a.width + x]

\* Bit p of the rule id r.
BitOf(r, p) == (r \div (2 ^ p)) % 2

\* Row 0 of a holds one live cell, at column floor(width/2), and 0 elsewhere.
SeedRow(a) ==
    \A x \in 0..(a.width - 1) :
        Cell(a, 0, x) = IF x = a.width \div 2 THEN 1 ELSE 0

\* Rows 1..height-1 of a are those rule r produces, each from the row above
\* it, with the columns wrapping.
ProducedBy(a, r) ==
    \A y \in 1..(a.height - 1) : \A x \in 0..(a.width - 1) :
        Cell(a, y, x) =
            BitOf(r, 4 * Cell(a, y - 1, (x - 1 + a.width) % a.width)
                     + 2 * Cell(a, y - 1, x)
                     + Cell(a, y - 1, (x + 1) % a.width))

\* C1: in every state of an engine, whatever rules were set and however often
\* reset() and run() were called, row 0 holds exactly one live cell, at column
\* floor(width/2): reset() seeds it and no run() changes it.
C1_SeedRowKept == SeedRow(automata[1])

\* C1 witness: run() has filled a grid of several rows under a rule that turns
\* the all-dead neighbourhood alive, and row 0 is still the seed.
C1_Witness ==
    /\ upToDate[1]
    /\ automata[1].rule % 2 = 1
    /\ automata[1].height >= 2
    /\ automata[1].width >= 2
    /\ \E x \in 0..(automata[1].width - 1) : Cell(automata[1], 1, x) = 1

\* C2: after run() under the stored rule r, every cell of rows 1..height-1 is
\* bit p of r, p = 4*left + 2*center + right read from the row above with the
\* columns wrapped (width 1 included).
C2_RowsFollowRule == upToDate[1] => ProducedBy(automata[1], automata[1].rule)

\* C2 witness: on a width-3 grid a cell of column 0 is alive only because its
\* left neighbour, the last column of the row above, is (pattern 4).
C2_Witness ==
    /\ upToDate[1]
    /\ automata[1].width = 3
    /\ automata[1].height = 3
    /\ Cell(automata[1], 1, 0) = 0
    /\ Cell(automata[1], 1, 1) = 0
    /\ Cell(automata[1], 1, 2) = 1
    /\ Cell(automata[1], 2, 0) = 1

\* C3: whenever two engines of the same dimensions each hold a grid that run()
\* filled under the same stored rule, the two grids are identical, however
\* many times each was run and reset before: a second run() (with or without
\* a reset() between) yields the grid of the first, and equal (width, height,
\* rule) yield equal grids.
C3_SameRuleSameGrid ==
    \A e1 \in Engines, e2 \in Engines :
        (/\ upToDate[e1]
         /\ upToDate[e2]
         /\ automata[e1].rule = automata[e2].rule)
        => automata[e1].grid = automata[e2].grid

\* C3 witness: engine 1 was run at least twice under rule 30, engine 2 once,
\* on a grid of at least three rows and three columns.
C3_Witness ==
    /\ upToDate[1] /\ upToDate[2]
    /\ runs[1] = 2 /\ runs[2] = 1
    /\ automata[1].rule = 30 /\ automata[2].rule = 30
    /\ automata[1].width >= 3 /\ automata[1].height >= 3
    /\ automata[1].grid = automata[2].grid

\* C8: a step that changes the stored rule changes nothing else of the engine
\* (no grid cell, no dimension), from the seeded and from the complete state;
\* the step that brings the grid up to date with the rule is a run(), which
\* keeps the rule and row 0 and leaves rows 1..height-1 as that rule produces
\* them.
C8_SetRuleFrame ==
    [][ /\ automata'[1].rule # automata[1].rule =>
              automata' = [automata EXCEPT ![1].rule = automata'[1].rule]
        /\ (~upToDate[1] /\ upToDate'[1]) =>
              /\ automata'[1].rule = automata[1].rule
              /\ \A x \in 0..(automata[1].width - 1) :
                     Cell(automata'[1], 0, x) = Cell(automata[1], 0, x)
              /\ ProducedBy(automata'[1], automata[1].rule) ]_vars

\* C8 witness: a complete grid whose stored rule was changed after the run:
\* the grid still shows the old rule, not the new one.
C8_Witness ==
    /\ ~upToDate[1]
    /\ \E i \in DOMAIN automata[1].grid :
          i >= automata[1].width /\ automata[1].grid[i] = 1
    /\ ~ProducedBy(automata[1], automata[1].rule)

\* ----------------------------------------------- properties of the analyzer

\* The last analyzeRule call was given engine 1's grid as it is now.
AnalysedNow == analysed.rule # NoRun /\ analysed.grid = automata[1].grid

Has(label) == \E i \in 1..Len(result.symmetries) : result.symmetries[i] = label

RowsEqual(a, y1, y2) == \A x \in 0..(a.width - 1) : Cell(a, y1, x) = Cell(a, y2, x)

\* The class the decision order of the claim gives rule id r on grid view a.
ClassByOrder(r, a) ==
    IF r \in {54, 110, 124, 137, 147, 193} THEN "Class 4 (Complex)"
    ELSE IF \A x \in 0..(a.width - 1) : Cell(a, a.height - 1, x) = Cell(a, a.height - 1, 0)
         THEN "Class 1 (Uniform)"
    ELSE IF \E k \in 1..(a.height - 1) :
                k <= 50 /\ RowsEqual(a, a.height - 1, a.height - 1 - k)
         THEN "Class 2 (Periodic/Stable)"
    ELSE "Class 3 (Chaotic/Aperiodic)"

\* C4: the class analyzeRule returns is the first match of: rule id in
\* {54,110,124,137,147,193} -> Class 4, whatever the grid; last row uniform ->
\* Class 1; last row equal to the row k above it for some k in
\* [1, min(50, height-1)] -> Class 2; otherwise Class 3.
C4_ClassByFirstMatch ==
    AnalysedNow => result.wolframClass = ClassByOrder(analysed.rule, automata[1])

\* C4 witness: a grid taller than the window whose last row recurs only 51
\* rows above it is analysed under a rule outside the Class 4 set: Class 3.
C4_Witness ==
    /\ AnalysedNow
    /\ analysed.rule = 30
    /\ automata[1].height = 52
    /\ RowsEqual(automata[1], 51, 0)
    /\ result.wolframClass = "Class 3 (Chaotic/Aperiodic)"

SymmetryOrder ==
    <<"Vertical (Left-Right)", "Horizontal (Top-Bottom)",
      "Diagonal (TL-BR)", "Anti-Diagonal (TR-BL)">>

\* The labels of the checks analyzeRule evaluates on view a and that pass.
Passed(a) ==
    {l \in {SymmetryOrder[i] : i \in 1..4} :
        \/ l = SymmetryOrder[1] /\ checkVerticalSymmetry(a.grid, a.width, a.height)
        \/ l = SymmetryOrder[2] /\ checkHorizontalSymmetry(a.grid, a.width, a.height)
        \/ l = SymmetryOrder[3] /\ a.width = a.height /\ checkDiagonalSymmetry(a.grid, a.width)
        \/ l = SymmetryOrder[4] /\ a.width = a.height /\ checkAntiDiagonalSymmetry(a.grid, a.width)}

IsPassed(l) == l \in Passed(automata[1])

\* C6: the symmetries sequence is never empty: it is <<"None">> when no
\* evaluated check passes, and otherwise the labels of exactly the checks that
\* passed, in the order Vertical, Horizontal, Diagonal, Anti-Diagonal, each
\* once and without "None".
C6_SymmetriesShape ==
    AnalysedNow =>
        /\ Len(result.symmetries) > 0
        /\ result.symmetries =
              IF Passed(automata[1]) = {} THEN <<"None">>
              ELSE SelectSeq(SymmetryOrder, IsPassed)

\* C6 witness: an analysed grid on which no check passes.
C6_Witness ==
    /\ AnalysedNow
    /\ automata[1].width = 3 /\ automata[1].height = 3
    /\ Passed(automata[1]) = {}
    /\ result.symmetries = <<"None">>

\* C7: on a grid with width # height the symmetries sequence holds neither
\* diagonal label, whatever the cells and the rule id.
C7_NoDiagonalOffSquare ==
    (AnalysedNow /\ automata[1].width # automata[1].height) =>
        ~Has("Diagonal (TL-BR)") /\ ~Has("Anti-Diagonal (TR-BL)")

\* C7 witness: an analysed 2x3 grid whose top 2x2 square is symmetric about
\* both diagonals and which is not all dead.
C7_Witness ==
    /\ AnalysedNow
    /\ automata[1].width = 2 /\ automata[1].height = 3
    /\ Cell(automata[1], 0, 1) = Cell(automata[1], 1, 0)
    /\ Cell(automata[1], 0, 0) = Cell(automata[1], 1, 1)
    /\ Cell(automata[1], 0, 0) = 1
    /\ ~Has("Diagonal (TL-BR)")

\* C9: each label is reported iff the whole grid equals its mirror image:
\* Horizontal iff grid[y][x] = grid[height-1-y][x], Vertical iff grid[y][x] =
\* grid[y][width-1-x], and on square grids Diagonal iff grid[y][x] = grid[x][y]
\* and Anti-Diagonal iff grid[y][x] = grid[size-1-x][size-1-y], for all y, x.
C9_HalfScanIsFullMirror ==
    AnalysedNow =>
        LET a == automata[1]
            rows == 0..(a.height - 1)
            cols == 0..(a.width - 1)
        IN  /\ Has("Horizontal (Top-Bottom)") <=>
                  \A y \in rows : \A x \in cols :
                      Cell(a, y, x) = Cell(a, a.height - 1 - y, x)
            /\ Has("Vertical (Left-Right)") <=>
                  \A y \in rows : \A x \in cols :
                      Cell(a, y, x) = Cell(a, y, a.width - 1 - x)
            /\ a.width = a.height =>
                  /\ Has("Diagonal (TL-BR)") <=>
                        \A y \in rows : \A x \in cols : Cell(a, y, x) = Cell(a, x, y)
                  /\ Has("Anti-Diagonal (TR-BL)") <=>
                        \A y \in rows : \A x \in cols :
                            Cell(a, y, x) = Cell(a, a.width - 1 - x, a.width - 1 - y)

\* C9 witness: an analysed 3x3 grid that equals its anti-diagonal mirror and
\* none of the other three.
C9_Witness ==
    /\ AnalysedNow
    /\ automata[1].width = 3 /\ automata[1].height = 3
    /\ result.symmetries = <<"Anti-Diagonal (TR-BL)">>

\* -------------------------------------------------- engine, then analyzer

\* The grid engine was reset and run under rule 0 and then analysed as rule 0.
RuleZeroAnalysed ==
    /\ upToDate[1]
    /\ automata[1].rule = 0
    /\ AnalysedNow
    /\ analysed.rule = 0

\* C5 as stated: rule 0 on any grid size is Class 1 (Uniform) with both the
\* Vertical and the Horizontal label.
C5_AsStated ==
    RuleZeroAnalysed =>
        /\ result.wolframClass = "Class 1 (Uniform)"
        /\ Has("Vertical (Left-Right)")
        /\ Has("Horizontal (Top-Bottom)")

\* C5 amended: for rule 0 the class is Class 1 (Uniform) iff height >= 2 or
\* width = 1 (a single row wider than one cell is the seed row itself, which
\* is not uniform); Vertical is reported iff the width is odd (the seed sits
\* on the mirror axis) and Horizontal iff height = 1 (the seed row has no
\* live mirror row).
C5_RuleZero ==
    RuleZeroAnalysed =>
        /\ result.wolframClass = "Class 1 (Uniform)" <=>
              (automata[1].height >= 2 \/ automata[1].width = 1)
        /\ Has("Vertical (Left-Right)") <=> automata[1].width % 2 = 1
        /\ Has("Horizontal (Top-Bottom)") <=> automata[1].height = 1

\* C5 witness: rule 0 run and analysed on a 3x3 grid: Class 1, Vertical only.
C5_Witness ==
    /\ RuleZeroAnalysed
    /\ runs[1] >= 1
    /\ automata[1].width = 3 /\ automata[1].height = 3
    /\ result.wolframClass = "Class 1 (Uniform)"
    /\ Has("Vertical (Left-Right)")
    /\ ~Has("Horizontal (Top-Bottom)")

\* --------------------------------------------------- properties of the page

\* C10: at most one interval timer is live; one is live only while the
\* auto-mode checkbox is checked; and a live timer is the one whose handle
\* autoInterval stores, so none is left ticking without a way to clear it.
C10_OneStoredTimer ==
    /\ Cardinality(intervals.live) <= 1
    /\ intervals.live # {} => dom.autoModeCheck
    /\ \A t \in intervals.live : t.id = autoInterval

\* C10 witness: auto mode is on, its timer was restarted by the slider (a
\* second handle, 2 s) and has ticked at least once since rule 30.
C10_Witness ==
    /\ dom.autoModeCheck
    /\ autoInterval = 2
    /\ intervals.live = {[id |-> 2, delay |-> 2000]}
    /\ automata[1].rule = 32
    /\ dom.ruleInput = <<"3", "2">>

\* C11: in every state of the page the engine's rule is an integer of
\* 0..255: the initial setRule(30), the Run button on any text of the rule
\* input, the Random button and the timer's tick (rule + 1, 255 wrapping to
\* 0) each pass setRule such a value.
C11_RuleInRange == automata[1].rule \in 0..255

\* C11 witness: rule 255 was rendered at least twice in a row with no timer
\* ever started, by the Run button (on 255, 256, 300, 0x100 or the nine
\* nines) or by the Random Rule button on its greatest draw, and the
\* handler wrote 255 back to the rule input.
C11_Witness ==
    /\ automata[1].rule = 255
    /\ runs[1] = 2
    /\ intervals.nextId = 1
    /\ dom.ruleInput = <<"2", "5", "5">>
    /\ dom.statusText = [text |-> "rendered", rule |-> 255]

====
